---- MODULE Spec2Model ----
(***************************************************************************)
(* TrafficAnalytics.tsx: the component state, its fetch handlers and       *)
(* effects, and the three data transformations (generateColorFromString,  *)
(* the chartData reduce, generateChartSeries).                             *)
(*                                                                         *)
(* Representation.                                                         *)
(*  - A JavaScript string that is hashed or used as an object key is the   *)
(*    sequence of its UTF-16 code units ("A" is <<65>>).                   *)
(*  - A JavaScript number that may leave the range of a TLC integer (the   *)
(*    rolling hash) is a pair of limbs [hi, lo] with value hi*65536 + lo,  *)
(*    0 <= lo < 65536.                                                     *)
(*  - A date/time string is [kind, t]: kind "iso" parses to the instant t, *)
(*    kind "bad" does not parse, kind "empty" is '', kind "null" is null.  *)
(*  - A plain object is the sequence of its own entries in creation order. *)
(***************************************************************************)
EXTENDS Integers, Sequences, FiniteSets, TLC

VARIABLES
    trafficData,     \* useState<GameData[]>            (line 15)
    categories,      \* useState<string[]>              (line 16)
    categoryColors,  \* useState<{[key]: string}>       (line 17)
    dateOption,      \* useState<'daily' | 'custom'>    (line 18)
    selectedDate,    \* useState<string>                (line 19)
    weeklyData,      \* useState<GameData[]>            (line 20)
    chartSeries,     \* useState<any[]>                 (line 21)
    chartData,       \* const chartData of the last render (line 135)
    now,             \* the clock read by Date.now() / new Date()
    requests,        \* every invoke() call issued so far, with its status
    lastTraffic,     \* the fetch_custom_data call that resolved last: its
                     \* index in requests (0: none yet) and its response
    mounted,         \* the mount effects have run
    lastEvent        \* the handler that ran last

vars == <<trafficData, categories, categoryColors, dateOption, selectedDate,
          weeklyData, chartSeries, chartData, now, requests, lastTraffic, mounted,
          lastEvent>>

(***************************************************************************)
(* Bounds                                                                  *)
(***************************************************************************)
MaxStrLen == 6          \* longest string hashed in SpecColor
MaxBatch == 2           \* longest trafficData batch in SpecTimeline
MaxWeekly == 2          \* longest weeklyData batch in SpecWeekly
MaxCats == 2            \* longest category list in SpecWeekly
MaxRequests == 3        \* invoke() calls the user's actions may bring about in Spec
MaxNow == 1             \* last clock value in Spec
TicksPerDay == 2        \* clock ticks in one day

(***************************************************************************)
(* Numbers                                                                 *)
(***************************************************************************)
\* isNaN(x): NaN is the one value of the model that is not a time or a day.
NaN == -1

\* hi*65536 + lo, with lo brought into 0..65535
Norm(hi, lo) == [hi |-> hi + (lo \div 65536), lo |-> lo % 65536]

\* ToInt32, applied by <<, >> and & to their operands
ToInt32(h) == [hi |-> ((h.hi + 32768) % 65536) - 32768, lo |-> h.lo]

\* hash << 5
ShiftLeft5(h) == ToInt32(Norm(ToInt32(h).hi * 32, h.lo * 32))

\* a - b on numbers (no truncation)
Minus(a, b) == Norm(a.hi - b.hi, a.lo - b.lo)

\* c + a on numbers, c a code unit (no truncation)
Plus(c, a) == Norm(a.hi, a.lo + c)

\* line 64: hash = str.charCodeAt(i) + ((hash << 5) - hash)
HashStep(hash, c) == Plus(c, Minus(ShiftLeft5(hash), hash))

RECURSIVE HashLoop(_, _, _)
\* lines 62-65: the for loop, from index i (1-based) with the hash so far
HashLoop(s, i, hash) ==
    IF i > Len(s) THEN hash ELSE HashLoop(s, i + 1, HashStep(hash, s[i]))

\* Variant: the remainder without the mask, which has the sign of the hash
ChannelR_NoMask(hash) ==
    LET h == ToInt32(hash)
    IN IF h.hi < 0 /\ h.lo % 256 # 0 THEN (h.lo % 256) - 256 ELSE h.lo % 256
\* line 68: (hash & 0xFF) % 256
ChannelR(hash) == (ToInt32(hash).lo % 256) % 256
\* line 69: ((hash >> 8) & 0xFF) % 256
ChannelG(hash) == ((ToInt32(hash).lo \div 256) % 256) % 256
\* line 70: ((hash >> 16) & 0xFF) % 256
ChannelB(hash) == (ToInt32(hash).hi % 256) % 256

\* Math.min(255, Math.floor(x * 1.2)).  For an integer x in 0..255 the double
\* x * 1.2 has the floor of the exact 6x/5 (the product of a multiple of 5
\* rounds to the integer itself).
Brighten(x) ==
    LET f == (x * 12) \div 10 IN IF f > 255 THEN 255 ELSE f

HexDigit(d) ==
    <<"0", "1", "2", "3", "4", "5", "6", "7",
      "8", "9", "a", "b", "c", "d", "e", "f">>[d + 1]

RECURSIVE ToString16(_)
\* Number.prototype.toString(16) of an integer
ToString16(n) ==
    IF n < 0 THEN "-" \o ToString16(0 - n)
    ELSE IF n < 16 THEN HexDigit(n)
    ELSE ToString16(n \div 16) \o HexDigit(n % 16)

\* .padStart(2, '0')
PadStart2(s) == IF Len(s) < 2 THEN "0" \o s ELSE s

\* lines 68-76: the three channels after brightening
Channels(s) ==
    LET hash == HashLoop(s, 1, [hi |-> 0, lo |-> 0])
        r == ChannelR(hash)
        g == ChannelG(hash)
        b == ChannelB(hash)
    IN <<Brighten(r), Brighten(g), Brighten(b)>>

\* lines 61-82
generateColorFromString(s) ==
    LET ch == Channels(s)
    IN "#" \o PadStart2(ToString16(ch[1])) \o PadStart2(ToString16(ch[2]))
           \o PadStart2(ToString16(ch[3]))

(***************************************************************************)
(* Strings, dates and plain objects                                        *)
(***************************************************************************)
Iso(t) == [kind |-> "iso", t |-> t]
Bad == [kind |-> "bad", t |-> 0]
Empty == [kind |-> "empty", t |-> 0]
Null == [kind |-> "null", t |-> 0]

\* truthiness of a string-or-null value (end_time ? ... : ...)
Truthy(s) == s.kind \notin {"null", "empty"}

\* new Date(s).getTime(): NaN for a string that does not parse, 0 for null
DateGetTime(s) ==
    CASE s.kind = "iso" -> s.t
      [] s.kind = "null" -> 0
      [] OTHER -> NaN

\* new Date(s).getDay(): 0 = Sunday .. 6 = Saturday, NaN for an invalid
\* date; day 0 of the clock (1970-01-01) is a Thursday
DateGetDay(s) ==
    LET t == DateGetTime(s)
    IN IF t = NaN THEN NaN ELSE ((t \div TicksPerDay) + 4) % 7

\* new Date().toISOString().split('T')[0] at clock value t: the date string
\* of the day t falls in
TodayString(t) == <<t \div TicksPerDay>>

\* An own key that is a canonical array index ("0", "7", "10", not "01"):
\* such keys are enumerated first, in ascending numeric order.
IsArrayIndex(k) ==
    /\ Len(k) \in 1..9
    /\ \A i \in DOMAIN k : k[i] \in 48..57
    /\ (Len(k) > 1 => k[1] # 48)

RECURSIVE IndexValue(_)
IndexValue(k) ==
    IF k = <<>> THEN 0
    ELSE 10 * IndexValue(SubSeq(k, 1, Len(k) - 1)) + (k[Len(k)] - 48)

\* obj[k] is defined (own property)
ObjHas(obj, k) == \E i \in DOMAIN obj : obj[i].key = k

\* obj[k]
ObjGet(obj, k) == obj[CHOOSE i \in DOMAIN obj : obj[i].key = k].value

\* obj[k] = v
ObjSet(obj, k, v) ==
    IF ObjHas(obj, k)
    THEN [i \in DOMAIN obj |->
            IF obj[i].key = k THEN [key |-> k, value |-> v] ELSE obj[i]]
    ELSE Append(obj, [key |-> k, value |-> v])

RECURSIVE AscendingIndex(_)
\* entries with array-index keys, in ascending numeric order
AscendingIndex(es) ==
    IF es = <<>> THEN <<>>
    ELSE LET m == CHOOSE i \in DOMAIN es :
                    \A j \in DOMAIN es :
                        IndexValue(es[i].key) <= IndexValue(es[j].key)
         IN <<es[m]>> \o AscendingIndex(SubSeq(es, 1, m - 1)
                                         \o SubSeq(es, m + 1, Len(es)))

\* own entries in property enumeration order: array-index keys ascending,
\* then the other keys in creation order
OwnEntries(obj) ==
    AscendingIndex(SelectSeq(obj, LAMBDA e : IsArrayIndex(e.key)))
        \o SelectSeq(obj, LAMBDA e : ~IsArrayIndex(e.key))

\* Object.values(obj)
ObjectValues(obj) ==
    LET es == OwnEntries(obj) IN [i \in DOMAIN es |-> es[i].value]

(***************************************************************************)
(* fetchCategories: the colors reduce                                      *)
(***************************************************************************)
RECURSIVE ColorsReduce(_, _, _)
\* lines 50-53
ColorsReduce(cats, i, acc) ==
    IF i > Len(cats) THEN acc
    ELSE ColorsReduce(cats, i + 1,
                      ObjSet(acc, cats[i], generateColorFromString(cats[i])))

ColorsOf(cats) == ColorsReduce(cats, 1, <<>>)

(***************************************************************************)
(* chartData                                                               *)
(***************************************************************************)
\* categoryColors[category] || '#CCCCCC'
ColorOrDefault(cc, category) ==
    IF ObjHas(cc, category) /\ ObjGet(cc, category) # ""
    THEN ObjGet(cc, category) ELSE "#CCCCCC"

\* lines 143-145: if (!acc[category]) acc[category] = {name, data: []}; a
\* bucket is an object, so acc[category] is falsy only when the key is absent
\* (category names are not names of Object.prototype properties)
EnsureBucket(acc, category) ==
    IF ~ObjHas(acc, category)
    THEN ObjSet(acc, category, [name |-> category, data |-> <<>>])
    ELSE acc

\* line 140
ResolveEnd(end_time, t) ==
    IF Truthy(end_time) THEN DateGetTime(end_time) ELSE t

\* Variant: only the start is validated
TimesValid_StartOnly(startTime, endTime) == startTime # NaN
\* line 148
TimesValid(startTime, endTime) == startTime # NaN /\ endTime # NaN

\* lines 149-153: acc[category].data.push(...)
PushInterval(acc, category, item) ==
    LET b == ObjGet(acc, category)
    IN ObjSet(acc, category, [b EXCEPT !.data = Append(@, item)])

\* lines 135-157: the reducer, at clock value t
ChartDataStep(acc, game, cc, t) ==
    LET category == game.category_name
        instance == game.instance_name
        startTime == DateGetTime(game.start_time)
        endTime == ResolveEnd(game.end_time, t)
        acc1 == EnsureBucket(acc, category)
    IN IF TimesValid(startTime, endTime)
       THEN PushInterval(acc1, category,
                         [x |-> instance, y |-> <<startTime, endTime>>,
                          color |-> ColorOrDefault(cc, category)])
       ELSE acc1

RECURSIVE ChartDataReduce(_, _, _, _, _)
ChartDataReduce(data, i, acc, cc, t) ==
    IF i > Len(data) THEN acc
    ELSE ChartDataReduce(data, i + 1, ChartDataStep(acc, data[i], cc, t), cc, t)

\* lines 135-158: Object.values(trafficData.reduce(..., {}))
BuildChartData(data, cc, t) == ObjectValues(ChartDataReduce(data, 1, <<>>, cc, t))

(***************************************************************************)
(* generateChartSeries                                                     *)
(***************************************************************************)
\* Array(7).fill(0)
ZeroVector == [i \in 1..7 |-> 0]

\* categories.indexOf(name): 0-based, -1 when absent
IndexOf(cats, name) ==
    IF \E i \in DOMAIN cats : cats[i] = name
    THEN (CHOOSE i \in DOMAIN cats :
            cats[i] = name /\ \A j \in 1..(i - 1) : cats[j] # name) - 1
    ELSE -1

\* Variant: Sunday is not remapped
AdjustedDay_NoRemap(day) == IF day = NaN THEN NaN ELSE day - 1
\* line 125: day === 0 ? 6 : day - 1   (NaN - 1 is NaN)
AdjustedDay(day) ==
    IF day = NaN THEN NaN ELSE IF day = 0 THEN 6 ELSE day - 1

\* lines 122-130, one record.  A write at an index outside 0..6 (NaN, -1)
\* lands on a property that is no slot of the 7-element array.
SeriesStep(series, game, cats) ==
    LET day == DateGetDay(game.start_time)
        categoryIndex == IndexOf(cats, game.category_name)
        adjustedDay == AdjustedDay(day)
    IN IF categoryIndex # -1 /\ adjustedDay \in 0..6
       THEN [series EXCEPT ![categoryIndex + 1].data[adjustedDay + 1] = @ + 1]
       ELSE series

RECURSIVE SeriesLoop(_, _, _, _)
SeriesLoop(data, i, series, cats) ==
    IF i > Len(data) THEN series
    ELSE SeriesLoop(data, i + 1, SeriesStep(series, data[i], cats), cats)

\* lines 117-130: the series before the filter
BuildSeries(data, cats) ==
    SeriesLoop(data, 1, [i \in DOMAIN cats |-> [name |-> cats[i], data |-> ZeroVector]],
               cats)

\* Variant: nothing is filtered out
NonEmptySeries_KeepAll(series) == series
\* line 132: the filter
NonEmptySeries(series) ==
    SelectSeq(series, LAMBDA serie : \E i \in 1..7 : serie.data[i] > 0)

\* lines 116-133: the value passed to setChartSeries
generateChartSeries(data, cats) == NonEmptySeries(BuildSeries(data, cats))

(***************************************************************************)
(* Inputs                                                                  *)
(***************************************************************************)
CatA == <<65>>          \* "A"
CatB == <<66>>          \* "B"
CatOne == <<49>>        \* "1"
CatZ == <<90>>          \* "Z", never in the category list

\* instance_name of the i-th record of a batch: "t1", "t2", ...
InstanceLabel(i) == <<116, 48 + i>>

GameData(instance, category, start, end) ==
    [instance_name |-> instance, category_name |-> category,
     start_time |-> start, end_time |-> end]

\* the batch of n records whose i-th record has the fields f[i]
Batch(n, f) ==
    [i \in 1..n |-> GameData(InstanceLabel(i), f[i][1], f[i][2], f[i][3])]

(***************************************************************************)
(* The component                                                           *)
(***************************************************************************)
\* lines 15-21: the useState initial values, and the first render
InitComponent ==
    /\ trafficData = <<>>
    /\ categories = <<>>
    /\ categoryColors = <<>>
    /\ dateOption = "daily"
    /\ selectedDate = <<>>
    /\ weeklyData = <<>>
    /\ chartSeries = <<>>
    /\ chartData = <<>>
    /\ now = 0
    /\ requests = <<>>
    /\ lastTraffic = [id |-> 0, response |-> [null |-> TRUE, data |-> <<>>]]
    /\ mounted = FALSE
    /\ lastEvent = "init"

InFlight == {i \in DOMAIN requests : requests[i].status = "pending"}

\* invoke(kind, {startDate: date, endDate: date}): a new pending promise
Invoke(reqs, kind, date) ==
    Append(reqs, [kind |-> kind, date |-> date, status |-> "pending"])

\* lines 27-31, with the values of the render the effect belongs to
TrafficEffect(reqs, option, selected, t) ==
    IF option = "daily" THEN Invoke(reqs, "traffic", TodayString(t))
    ELSE IF selected # <<>> THEN Invoke(reqs, "traffic", selected)
    ELSE reqs

\* lines 33-37
WeeklyEffect(reqs, cats) ==
    IF Len(cats) > 0 THEN Invoke(reqs, "weekly", <<>>) ELSE reqs

\* lines 39-43: the value of chartSeries after the effect
SeriesEffect(series, cats, weekly) ==
    IF Len(cats) > 0 /\ Len(weekly) > 0
    THEN generateChartSeries(weekly, cats) ELSE series

\* what the backend may answer
CategoryResponses == {<<>>, <<CatA, CatB>>}
TrafficResponses(date) ==
    {[null |-> TRUE, data |-> <<>>],
     [null |-> FALSE,
      data |-> <<GameData(InstanceLabel(1), CatA, Iso(date[1] * TicksPerDay), Null)>>]}
WeeklyResponses ==
    {[null |-> TRUE, data |-> <<>>],
     [null |-> FALSE, data |-> <<GameData(InstanceLabel(1), CatB, Iso(4 * TicksPerDay), Null)>>],
     [null |-> FALSE, data |-> <<>>]}
UserDates == {<<1>>, <<2>>}

\* fetchedData || []
OrEmpty(resp) == IF resp.null THEN <<>> ELSE resp.data

\* lines 23-43 after the first render: the four effects
Mount ==
    /\ ~mounted
    /\ mounted' = TRUE
    /\ requests' = WeeklyEffect(
                      TrafficEffect(Invoke(requests, "categories", <<>>),
                                    dateOption, selectedDate, now),
                      categories)
    /\ chartSeries' = SeriesEffect(chartSeries, categories, weeklyData)
    /\ lastEvent' = "mount"
    /\ UNCHANGED <<trafficData, categories, categoryColors, dateOption,
                   selectedDate, weeklyData, chartData, now, lastTraffic>>

\* line 229: the Select's onChange, then the effect of lines 27-31
SetDateOption(option) ==
    /\ mounted
    /\ option # dateOption
    /\ Len(requests) < MaxRequests
    /\ dateOption' = option
    /\ requests' = TrafficEffect(requests, option, selectedDate, now)
    /\ chartData' = BuildChartData(trafficData, categoryColors, now)
    /\ lastEvent' = "setDateOption"
    /\ UNCHANGED <<trafficData, categories, categoryColors, selectedDate,
                   weeklyData, chartSeries, now, lastTraffic, mounted>>

\* line 239: the TextField's onChange (rendered when dateOption is custom)
SetSelectedDate(date) ==
    /\ mounted
    /\ dateOption = "custom"
    /\ date # selectedDate
    /\ Len(requests) < MaxRequests
    /\ selectedDate' = date
    /\ requests' = TrafficEffect(requests, dateOption, date, now)
    /\ chartData' = BuildChartData(trafficData, categoryColors, now)
    /\ lastEvent' = "setSelectedDate"
    /\ UNCHANGED <<trafficData, categories, categoryColors, dateOption,
                   weeklyData, chartSeries, now, lastTraffic, mounted>>

\* lines 47-55: invoke resolves with fetched; then the effects of lines 33-43
CategoriesResolved(i, fetched) ==
    /\ i \in InFlight
    /\ requests[i].kind = "categories"
    /\ categories' = fetched
    /\ categoryColors' = ColorsOf(fetched)
    /\ requests' = WeeklyEffect([requests EXCEPT ![i].status = "resolved"], fetched)
    /\ chartSeries' = SeriesEffect(chartSeries, fetched, weeklyData)
    /\ chartData' = BuildChartData(trafficData, categoryColors', now)
    /\ lastEvent' = "categoriesResolved"
    /\ UNCHANGED <<trafficData, dateOption, selectedDate, weeklyData, now,
                   lastTraffic, mounted>>

\* Variant: a response is dropped when a newer fetch_custom_data was issued
TrafficResolved_OnlyNewest(i, fetched) ==
    /\ i \in InFlight
    /\ requests[i].kind = "traffic"
    /\ trafficData' = IF \E j \in DOMAIN requests : j > i /\ requests[j].kind = "traffic"
                      THEN trafficData ELSE OrEmpty(fetched)
    /\ requests' = [requests EXCEPT ![i].status = "resolved"]
    /\ lastTraffic' = [id |-> i, response |-> fetched]
    /\ chartData' = BuildChartData(trafficData', categoryColors, now)
    /\ lastEvent' = "trafficResolved"
    /\ UNCHANGED <<categories, categoryColors, dateOption, selectedDate,
                   weeklyData, chartSeries, now, mounted>>
\* lines 86-90: invoke resolves with fetched
TrafficResolved(i, fetched) ==
    /\ i \in InFlight
    /\ requests[i].kind = "traffic"
    /\ trafficData' = OrEmpty(fetched)
    /\ requests' = [requests EXCEPT ![i].status = "resolved"]
    /\ lastTraffic' = [id |-> i, response |-> fetched]
    /\ chartData' = BuildChartData(trafficData', categoryColors, now)
    /\ lastEvent' = "trafficResolved"
    /\ UNCHANGED <<categories, categoryColors, dateOption, selectedDate,
                   weeklyData, chartSeries, now, mounted>>

\* lines 98-110; then the effect of lines 39-43
WeeklyResolved(i, fetched) ==
    /\ i \in InFlight
    /\ requests[i].kind = "weekly"
    /\ weeklyData' = OrEmpty(fetched)
    /\ requests' = [requests EXCEPT ![i].status = "resolved"]
    /\ chartSeries' = SeriesEffect(chartSeries, categories, weeklyData')
    /\ chartData' = BuildChartData(trafficData, categoryColors, now)
    /\ lastEvent' = "weeklyResolved"
    /\ UNCHANGED <<trafficData, categories, categoryColors, dateOption,
                   selectedDate, now, lastTraffic, mounted>>

\* Variant: the catch clears the state the fetch was for
FetchRejected_ClearsData(i) ==
    /\ i \in InFlight
    /\ requests' = [requests EXCEPT ![i].status = "rejected"]
    /\ trafficData' = IF requests[i].kind = "traffic" THEN <<>> ELSE trafficData
    /\ weeklyData' = IF requests[i].kind = "weekly" THEN <<>> ELSE weeklyData
    /\ categories' = IF requests[i].kind = "categories" THEN <<>> ELSE categories
    /\ lastEvent' = "fetchRejected"
    /\ UNCHANGED <<categoryColors, dateOption, selectedDate, chartSeries,
                   chartData, now, lastTraffic, mounted>>
\* lines 56-58, 91-93, 111-113: invoke rejects; the catch logs
FetchRejected(i) ==
    /\ i \in InFlight
    /\ requests' = [requests EXCEPT ![i].status = "rejected"]
    /\ lastEvent' = "fetchRejected"
    /\ UNCHANGED <<trafficData, categories, categoryColors, dateOption,
                   selectedDate, weeklyData, chartSeries, chartData, now,
                   lastTraffic, mounted>>

\* the clock advances
Tick ==
    /\ now < MaxNow
    /\ now' = now + 1
    /\ lastEvent' = "tick"
    /\ UNCHANGED <<trafficData, categories, categoryColors, dateOption,
                   selectedDate, weeklyData, chartSeries, chartData, requests,
                   lastTraffic, mounted>>

Init == InitComponent

Next ==
    \/ Mount
    \/ \E option \in {"daily", "custom"} : SetDateOption(option)
    \/ \E date \in UserDates : SetSelectedDate(date)
    \/ \E i \in DOMAIN requests : \E fetched \in CategoryResponses :
          CategoriesResolved(i, fetched)
    \/ \E i \in {j \in DOMAIN requests : requests[j].kind = "traffic"} :
          \E fetched \in TrafficResponses(requests[i].date) :
              TrafficResolved(i, fetched)
    \/ \E i \in DOMAIN requests : \E fetched \in WeeklyResponses :
          WeeklyResolved(i, fetched)
    \/ \E i \in DOMAIN requests : FetchRejected(i)
    \/ Tick

Spec == Init /\ [][Next]_vars

(***************************************************************************)
(* generateColorFromString on every string over CodeUnits                  *)
(***************************************************************************)
CodeUnits == {49, 65, 122, 65535}

\* the component with get_distinct_categories answering one category of any
\* name, which fetchCategories passes to generateColorFromString
NextColor ==
    \/ Mount
    \/ \E i \in {j \in InFlight : requests[j].kind = "categories"} :
          \E n \in 0..MaxStrLen : \E name \in [1..n -> CodeUnits] :
              CategoriesResolved(i, <<name>>)

SpecColor == Init /\ [][NextColor]_vars

(***************************************************************************)
(* The chartData reduce on every batch over TimelineFields                 *)
(***************************************************************************)
TimelineFields ==
    {CatA, CatB, CatOne} \X {Iso(1), Bad} \X {Null, Empty, Iso(3), Bad}

\* lines 135-158 are evaluated again: the component renders one day later
RenderLater ==
    /\ mounted
    /\ now < TicksPerDay
    /\ now' = now + TicksPerDay
    /\ chartData' = BuildChartData(trafficData, categoryColors, now')
    /\ lastEvent' = "render"
    /\ UNCHANGED <<trafficData, categories, categoryColors, dateOption,
                   selectedDate, weeklyData, chartSeries, requests, lastTraffic,
                   mounted>>

\* the component with fetch_custom_data answering any batch
NextTimeline ==
    \/ Mount
    \/ \E i \in {j \in InFlight : requests[j].kind = "categories"} :
          CategoriesResolved(i, <<CatA>>)
    \/ \E i \in {j \in InFlight : requests[j].kind = "traffic"} :
          \E n \in 0..MaxBatch : \E f \in [1..n -> TimelineFields] :
              TrafficResolved(i, [null |-> FALSE, data |-> Batch(n, f)])
    \/ RenderLater

SpecTimeline == Init /\ [][NextTimeline]_vars

(***************************************************************************)
(* generateChartSeries on every category list and batch                    *)
(***************************************************************************)
\* one start_time on each day of a week, and one that does not parse
WeeklyStarts == {Iso(d * TicksPerDay + 1) : d \in 0..6} \cup {Bad}

WeeklyFields == {CatA, CatB, CatZ} \X WeeklyStarts \X {Null}

\* the component with get_distinct_categories answering any list and
\* fetch_weekly_data any batch
NextWeekly ==
    \/ Mount
    \/ \E i \in {j \in InFlight : requests[j].kind = "categories"} :
          \E n \in 0..MaxCats : \E fetched \in [1..n -> {CatA, CatB}] :
              CategoriesResolved(i, fetched)
    \/ \E i \in {j \in InFlight : requests[j].kind = "weekly"} :
          \E n \in 0..MaxWeekly : \E f \in [1..n -> WeeklyFields] :
              WeeklyResolved(i, [null |-> FALSE, data |-> Batch(n, f)])

SpecWeekly == Init /\ [][NextWeekly]_vars

(***************************************************************************)
(* Properties                                                              *)
(***************************************************************************)
Range(seq) == {seq[i] : i \in DOMAIN seq}

\* line 219: colors: Object.values(categoryColors); the chart draws the i-th
\* series of chartSeries in the i-th of these colors
WeeklyColors == ObjectValues(categoryColors)

\* ---------------------------------------------------------------- C5 ----
\* hash*31 + c in 32-bit signed wraparound arithmetic, on a signed 32-bit h
RefTimes31Plus(h, c) ==
    LET lo == h.lo * 31 + c
        hi == h.hi * 31 + (lo \div 65536)
    IN [hi |-> ((hi + 32768) % 65536) - 32768, lo |-> lo % 65536]

RECURSIVE RefHash(_)
RefHash(s) ==
    IF s = <<>> THEN [hi |-> 0, lo |-> 0]
    ELSE RefTimes31Plus(RefHash(SubSeq(s, 1, Len(s) - 1)), s[Len(s)])

\* min(255, floor(channel * 1.2))
RefBrighten(x) == IF (6 * x) \div 5 > 255 THEN 255 ELSE (6 * x) \div 5

\* the three reference channels of a string: bits 0-7, 8-15, 16-23 of the hash
RefChannels(s) ==
    LET h == RefHash(s)
    IN <<RefBrighten(h.lo % 256), RefBrighten(h.lo \div 256),
         RefBrighten(h.hi % 256)>>

\* two lowercase hex digits of a value in 0..255
Hex2(n) == HexDigit(n \div 16) \o HexDigit(n % 16)

\* C5: for every string, generateColorFromString gives the color of the
\* reference computation (hash*31 + c with 32-bit wraparound, the three masked
\* 8-bit windows, each brightened by 1.2 and clamped), every channel is in
\* 0..255, "" gives #000000 and "A" gives #4e0000.
C5_ColorMatchesReference ==
    \A k \in DOMAIN categoryColors :
        LET name == categoryColors[k].key
            ref == RefChannels(name)
        IN /\ \A i \in 1..3 : ref[i] \in 0..255 /\ Channels(name)[i] \in 0..255
           /\ Channels(name) = ref
           /\ categoryColors[k].value =
                 "#" \o Hex2(ref[1]) \o Hex2(ref[2]) \o Hex2(ref[3])
           /\ (name = <<>> => categoryColors[k].value = "#000000")
           /\ (name = <<65>> => categoryColors[k].value = "#4e0000")

\* a category was colored whose hash left the 32-bit range in the loop and
\* is negative as a 32-bit value
C5_Witness ==
    \E k \in DOMAIN categoryColors :
        LET hash == HashLoop(categoryColors[k].key, 1, [hi |-> 0, lo |-> 0])
        IN /\ hash.hi \notin -32768..32767
           /\ ToInt32(hash).hi < 0
           /\ categoryColors[k].value # "#000000"

\* ---------------------------------------------------------------- C1 ----
\* the step just taken ran the effect of lines 39-43 with categories and
\* weeklyData both non-empty, so generateChartSeries(weeklyData) was called
SeriesCalled ==
    /\ lastEvent = "weeklyResolved"
    /\ Len(categories) > 0
    /\ Len(weeklyData) > 0

\* the series (before the filter) after the first n records of weeklyData
SeriesAfter(n) == BuildSeries(SubSeq(weeklyData, 1, n), categories)

\* series with the slot at 0-based index s of the p-th vector incremented
Incremented(series, p, s) == [series EXCEPT ![p].data[s + 1] = @ + 1]

\* the p-th record of the batch increments exactly the slot the claim names
\* (6 on getDay 0, getDay - 1 otherwise) of its category's vector
CountsAtItsSlot(n) ==
    LET game == weeklyData[n]
        day == DateGetDay(game.start_time)
        s == IF day = 0 THEN 6 ELSE day - 1
    IN /\ s \in 0..6
       /\ SeriesAfter(n) = Incremented(SeriesAfter(n - 1),
                                       IndexOf(categories, game.category_name) + 1, s)

\* C1 as stated: every record whose category_name is in categories increments
\* by exactly 1 the slot 6 (Sunday) or getDay - 1 of its category's vector and
\* no other slot; a record of an unknown category changes nothing.
C1_EveryKnownRecordCounts ==
    SeriesCalled =>
        \A n \in DOMAIN weeklyData :
            IF weeklyData[n].category_name \in Range(categories)
            THEN CountsAtItsSlot(n)
            ELSE SeriesAfter(n) = SeriesAfter(n - 1)

\* C1 amended: every record whose category_name is in categories and whose
\* start_time parses to a date increments by exactly 1 the slot 6 (Sunday) or
\* getDay - 1 of its category's vector and no other slot; a record of an
\* unknown category or with an unparseable start_time changes no slot; the
\* counts handed to setChartSeries are the numbers of such records.
C1_ParseableKnownRecordCounts ==
    SeriesCalled =>
        /\ \A n \in DOMAIN weeklyData :
              IF /\ weeklyData[n].category_name \in Range(categories)
                 /\ DateGetDay(weeklyData[n].start_time) # NaN
              THEN CountsAtItsSlot(n)
              ELSE SeriesAfter(n) = SeriesAfter(n - 1)
        /\ \A k \in DOMAIN chartSeries : \A s \in 0..6 :
              chartSeries[k].data[s + 1] =
                  Cardinality({n \in DOMAIN weeklyData :
                      /\ weeklyData[n].category_name = chartSeries[k].name
                      /\ DateGetDay(weeklyData[n].start_time) # NaN
                      /\ s = (IF DateGetDay(weeklyData[n].start_time) = 0 THEN 6
                              ELSE DateGetDay(weeklyData[n].start_time) - 1)})

\* a Sunday record of a known category is counted in slot 6, next to a record
\* that is not counted
C1_Witness ==
    /\ SeriesCalled
    /\ \E n, m \in DOMAIN weeklyData :
          /\ weeklyData[n].category_name \in Range(categories)
          /\ DateGetDay(weeklyData[n].start_time) = 0
          /\ \E k \in DOMAIN chartSeries :
                /\ chartSeries[k].name = weeklyData[n].category_name
                /\ chartSeries[k].data[7] = 1
          /\ \/ weeklyData[m].category_name \notin Range(categories)
             \/ DateGetDay(weeklyData[m].start_time) = NaN

\* ---------------------------------------------------------------- C3 ----
\* positions of the unfiltered series with at least one count > 0
PositiveSeries(series) ==
    {p \in DOMAIN series : \E i \in 1..7 : series[p].data[i] > 0}

\* C3: chartSeries never holds an all-zero series, every vector has 7 slots
\* and counts >= 0; after a call of generateChartSeries it holds exactly the
\* series with a count > 0, in the order of the categories list.
C3_OnlyNonEmptySeriesInOrder ==
    /\ \A k \in DOMAIN chartSeries :
          /\ Len(chartSeries[k].data) = 7
          /\ \A i \in 1..7 : chartSeries[k].data[i] >= 0
          /\ \E i \in 1..7 : chartSeries[k].data[i] > 0
    /\ SeriesCalled =>
          LET series == SeriesAfter(Len(weeklyData))
              keep == PositiveSeries(series)
          IN /\ Len(chartSeries) = Cardinality(keep)
             /\ \A k \in DOMAIN chartSeries :
                   \E p \in keep :
                      /\ Cardinality({q \in keep : q < p}) = k - 1
                      /\ chartSeries[k] = series[p]
                      /\ chartSeries[k].name = categories[p]

\* the first category of the list has no count and is filtered out, the second
\* is kept
C3_Witness ==
    /\ SeriesCalled
    /\ Len(categories) = 2
    /\ Len(chartSeries) = 1
    /\ chartSeries[1].name = categories[2]
    /\ categories[1] # categories[2]

\* --------------------------------------------------------------- C10 ----
\* C10: every displayed weekly series is paired with the color
\* generateColorFromString gives its own category name.
C10_SeriesHasItsOwnColor ==
    \A i \in DOMAIN chartSeries :
        /\ i \in DOMAIN WeeklyColors
        /\ WeeklyColors[i] = generateColorFromString(chartSeries[i].name)

\* ---------------------------------------------------------------- C2 ----
\* start_time resolves to a timestamp, and so does end_time when present
ValidRecord(game) ==
    /\ DateGetTime(game.start_time) # NaN
    /\ Truthy(game.end_time) => DateGetTime(game.end_time) # NaN

RECURSIVE TotalIntervals(_)
TotalIntervals(series) ==
    IF series = <<>> THEN 0
    ELSE Len(series[1].data) + TotalIntervals(Tail(series))

SourceOf(item) ==
    CHOOSE n \in DOMAIN trafficData : trafficData[n].instance_name = item.x

\* position of the first record of a category in the batch
FirstOccurrence(name) ==
    CHOOSE n \in DOMAIN trafficData :
        /\ trafficData[n].category_name = name
        /\ \A m \in 1..(n - 1) : trafficData[m].category_name # name

\* C4: inside one category the intervals are in the order of their records,
\* and the categories of chartData are in the order of their first occurrence
\* in the batch, for every category name.
C4_OrderOfInput ==
    /\ \A k \in DOMAIN chartData : \A i, j \in DOMAIN chartData[k].data :
          i < j => SourceOf(chartData[k].data[i]) < SourceOf(chartData[k].data[j])
    /\ \A k, l \in DOMAIN chartData :
          k < l => FirstOccurrence(chartData[k].name) < FirstOccurrence(chartData[l].name)

\* ---------------------------------------------------------------- C6 ----
\* C6: every record with end_time null and a valid start_time has an interval
\* whose end is the clock value of the render and is >= its start.
C6_OngoingEndsNow ==
    \A n \in DOMAIN trafficData :
        (trafficData[n].end_time = Null /\ DateGetTime(trafficData[n].start_time) # NaN)
        => \E k \in DOMAIN chartData : \E j \in DOMAIN chartData[k].data :
              /\ chartData[k].data[j].x = trafficData[n].instance_name
              /\ chartData[k].data[j].y[2] = now
              /\ chartData[k].data[j].y[2] >= chartData[k].data[j].y[1]

\* ---------------------------------------------------------------- C9 ----
\* C9: every category of chartData has a non-empty interval list; a category
\* whose records are all invalid is absent.
C9_NoEmptyBucket ==
    \A k \in DOMAIN chartData : Len(chartData[k].data) > 0

\* ---------------------------------------------------------------- C7 ----
\* C7: a step in which an invoke call rejects changes none of categories,
\* categoryColors, trafficData, weeklyData, chartSeries.
C7_RejectionKeepsState ==
    [][(\E i \in DOMAIN requests :
           requests[i].status = "pending" /\ requests'[i].status = "rejected")
       => UNCHANGED <<categories, categoryColors, trafficData, weeklyData,
                      chartSeries>>]_vars

\* a fetch_custom_data call has just been rejected while fetched data is on
\* display and another call is still in flight
C7_Witness ==
    /\ lastEvent = "fetchRejected"
    /\ trafficData # <<>>
    /\ categories # <<>>
    /\ \E i \in DOMAIN requests :
          requests[i].kind = "traffic" /\ requests[i].status = "rejected"
    /\ InFlight # {}

\* ---------------------------------------------------------------- C8 ----
\* C8: issuing a fetch leaves every older call in flight, and trafficData is
\* the response of the fetch_custom_data call that resolved last, whichever
\* date it was issued for.
C8_LastResolvedWins ==
    /\ [](lastTraffic.id # 0 => trafficData = OrEmpty(lastTraffic.response))
    /\ [][\A i \in DOMAIN requests :
             (requests[i].status = "pending" /\ requests'[i].status # "pending")
             => /\ Len(requests') = Len(requests) \/ requests[i].kind = "categories"
                /\ requests'[i].status \in {"resolved", "rejected"}
                /\ \A j \in DOMAIN requests : j # i => requests'[j] = requests[j]]_vars

\* two fetch_custom_data calls for different dates were in flight together,
\* both have resolved, the one issued first resolved last, and trafficData
\* shows its records although the other date is the selected one
C8_Witness ==
    \E i, j \in DOMAIN requests :
        /\ i < j
        /\ requests[i].kind = "traffic" /\ requests[j].kind = "traffic"
        /\ requests[i].status = "resolved" /\ requests[j].status = "resolved"
        /\ requests[i].date # requests[j].date
        /\ lastTraffic.id = i
        /\ dateOption = "custom" /\ selectedDate = requests[j].date
        /\ \A n \in DOMAIN requests :
              requests[n].kind = "traffic" => requests[n].status # "pending"
        /\ Len(trafficData) = 1
        /\ trafficData[1].start_time = Iso(requests[i].date[1] * TicksPerDay)

====
